---- MODULE Spec2Model ----
(***************************************************************************)
(* Diffusion-maps embedding core of annembed: DiffusionParams /            *)
(* DiffusionMaps (src/src/diffmaps.rs), GraphLaplacian                     *)
(* (src/src/graphlaplace.rs) and the range approximation                   *)
(* (src/src/tools/svdapprox.rs).                                           *)
(*                                                                         *)
(* f32 values are modelled by a small binary floating-point format:        *)
(* a value is m * 2^e with 2^(MantBits-1) <= |m| < 2^MantBits, or zero,    *)
(* or an infinity, or NaN.  Operations round toward zero, overflow to an   *)
(* infinity and underflow to zero, so that + and * commute but do not      *)
(* associate, halving and doubling are exact, and x/0, 0/0 behave as in    *)
(* IEEE-754.                                                               *)
(***************************************************************************)
EXTENDS Integers, Sequences, FiniteSets, TLC

(***************************************************************************)
(* Bounds of the model.                                                    *)
(***************************************************************************)
\* bits of mantissa of the modelled float format (24 for f32)
MantBits == 8
\* largest binary exponent of the modelled float format (127 for f32)
MaxExp == 40
\* largest number of nodes of a k-NN graph
MaxNodes == 4
\* the points behind a k-NN graph lie on the integer line 0..MaxPos
MaxPos == 6

(***************************************************************************)
(* f32 arithmetic.                                                         *)
(***************************************************************************)
Abs(x) == IF x < 0 THEN -x ELSE x

Sign(x) == IF x < 0 THEN -1 ELSE 1

Pow2 == [b \in 0..30 |-> 2^b]

\* number of bits of n >= 0 (0 for n = 0)
BitLen(n) == CHOOSE b \in 0..30 : n < Pow2[b] /\ (b = 0 \/ n >= Pow2[b-1])

NaN == [k |-> "nan", m |-> 0, e |-> 0]

Inf(s) == [k |-> "inf", m |-> s, e |-> 0]

Zero == [k |-> "num", m |-> 0, e |-> 0]

\* the float nearest toward zero to s * n * 2^e, for n >= 0 and s = 1 or -1
Mk(s, n, e) ==
  IF n = 0 THEN Zero
  ELSE LET sh == BitLen(n) - MantBits
           mm == IF sh > 0 THEN n \div Pow2[sh] ELSE n * Pow2[-sh]
           ee == e + sh
       IN  IF ee > MaxExp THEN Inf(s)
           ELSE IF ee < -MaxExp THEN Zero
           ELSE [k |-> "num", m |-> s * mm, e |-> ee]

FromInt(n) == Mk(Sign(n), Abs(n), 0)

One == FromInt(1)

IsNaN(a) == a.k = "nan"

IsInf(a) == a.k = "inf"

IsZero(a) == a.k = "num" /\ a.m = 0

IsFinite(a) == a.k = "num"

FSign(a) == IF a.m < 0 THEN -1 ELSE 1

FNeg(a) == [a EXCEPT !.m = -a.m]

\* a < b on floats other than NaN
LtNum(a, b) ==
  IF a.k = "inf" \/ b.k = "inf"
  THEN (a.k = "inf" /\ a.m < 0 /\ ~(b.k = "inf" /\ b.m < 0))
       \/ (b.k = "inf" /\ b.m > 0 /\ ~(a.k = "inf" /\ a.m > 0))
  ELSE IF a.m = 0 \/ b.m = 0 \/ FSign(a) # FSign(b) THEN a.m < b.m
  ELSE IF a.e # b.e THEN (IF a.m > 0 THEN a.e < b.e ELSE a.e > b.e)
  ELSE a.m < b.m

\* the comparisons of f32: every comparison with NaN is false
FLt(a, b) == ~IsNaN(a) /\ ~IsNaN(b) /\ LtNum(a, b)

FEq(a, b) == ~IsNaN(a) /\ ~IsNaN(b) /\ a = b

FLe(a, b) == FLt(a, b) \/ FEq(a, b)

FGt(a, b) == FLt(b, a)

\* f32::max and f32::min: the other operand when one is NaN
FMax(a, b) == IF IsNaN(a) THEN b ELSE IF IsNaN(b) THEN a ELSE IF LtNum(a, b) THEN b ELSE a

FMin(a, b) == IF IsNaN(a) THEN b ELSE IF IsNaN(b) THEN a ELSE IF LtNum(b, a) THEN b ELSE a

FMul(a, b) ==
  IF IsNaN(a) \/ IsNaN(b) THEN NaN
  ELSE IF IsInf(a) \/ IsInf(b)
       THEN (IF IsZero(a) \/ IsZero(b) THEN NaN ELSE Inf(FSign(a) * FSign(b)))
  ELSE Mk(FSign(a) * FSign(b), Abs(a.m) * Abs(b.m), a.e + b.e)

FDiv(a, b) ==
  IF IsNaN(a) \/ IsNaN(b) THEN NaN
  ELSE IF IsInf(a) THEN (IF IsInf(b) THEN NaN ELSE Inf(FSign(a) * FSign(b)))
  ELSE IF IsInf(b) THEN Zero
  ELSE IF IsZero(b) THEN (IF IsZero(a) THEN NaN ELSE Inf(FSign(a)))
  ELSE Mk(FSign(a) * FSign(b), (Abs(a.m) * Pow2[MantBits + 1]) \div Abs(b.m),
          a.e - b.e - (MantBits + 1))

FAdd(a, b) ==
  IF IsNaN(a) \/ IsNaN(b) THEN NaN
  ELSE IF IsInf(a) THEN (IF IsInf(b) /\ a.m # b.m THEN NaN ELSE a)
  ELSE IF IsInf(b) THEN b
  ELSE IF IsZero(a) THEN b
  ELSE IF IsZero(b) THEN a
  ELSE LET hi == IF a.e >= b.e THEN a ELSE b
           lo == IF a.e >= b.e THEN b ELSE a
           d  == hi.e - lo.e
       IN  IF d > MantBits + 2 THEN hi
           ELSE LET sum == hi.m * Pow2[d] + lo.m
                IN  Mk(Sign(sum), Abs(sum), lo.e)

FSub(a, b) == FAdd(a, FNeg(b))

RECURSIVE SqrtSearch(_, _, _)
\* the largest r in lo..hi-1 with r*r <= x, given lo*lo <= x < hi*hi
SqrtSearch(x, lo, hi) ==
  IF hi - lo <= 1 THEN lo
  ELSE LET mid == (lo + hi) \div 2
       IN  IF mid * mid <= x THEN SqrtSearch(x, mid, hi) ELSE SqrtSearch(x, lo, mid)

ISqrt(x) == SqrtSearch(x, 0, Pow2[MantBits + 2])

FSqrt(a) ==
  IF IsNaN(a) THEN NaN
  ELSE IF IsZero(a) THEN Zero
  ELSE IF a.m < 0 THEN NaN
  ELSE IF IsInf(a) THEN a
  ELSE LET s == IF (a.e - MantBits) % 2 = 0 THEN MantBits ELSE MantBits + 1
       IN  Mk(1, ISqrt(a.m * Pow2[s]), (a.e - s) \div 2)

\* 2^(f/8) for f in 0..7, in units of 2^-7
Exp2Table == <<128, 140, 152, 166, 181, 197, 215, 235>>

\* floor(8 * a) for a finite float a of magnitude below 2^12, else a saturated value
Fixed8(a) ==
  IF a.e + 3 >= 0
  THEN (IF a.e + 3 + MantBits > 15 THEN Sign(a.m) * Pow2[15] ELSE a.m * Pow2[a.e + 3])
  ELSE (IF -(a.e + 3) > 30 THEN (IF a.m < 0 THEN -1 ELSE 0) ELSE a.m \div Pow2[-(a.e + 3)])

\* 2^a, to the 3 fractional bits of Exp2Table
FExp2(a) ==
  IF IsNaN(a) THEN NaN
  ELSE IF IsInf(a) THEN (IF a.m > 0 THEN a ELSE Zero)
  ELSE LET y == Fixed8(a)
           n == y \div 8
           f == y % 8
       IN  Mk(1, Exp2Table[f + 1], n - 7)

\* log2(a), to the 3 fractional bits of Exp2Table
FLog2(a) ==
  IF IsNaN(a) THEN NaN
  ELSE IF IsZero(a) THEN Inf(-1)
  ELSE IF a.m < 0 THEN NaN
  ELSE IF IsInf(a) THEN a
  ELSE LET top == a.m \div Pow2[MantBits - 8]
           f   == CHOOSE g \in 0..7 : Exp2Table[g + 1] <= top /\ (g = 7 \/ top < Exp2Table[g + 2])
           l8  == 8 * (a.e + MantBits - 1) + f
       IN  Mk(Sign(l8), Abs(l8), -3)

\* log2(e) and ln(2)
LOG2_E == FDiv(FromInt(369), FromInt(256))

LN_2 == FDiv(FromInt(177), FromInt(256))

\* f32::exp
FExp(a) == FExp2(FMul(a, LOG2_E))

\* f32::ln
FLn(a) == FMul(FLog2(a), LN_2)

Half == FDiv(One, FromInt(2))

\* f32::powf: exact for the exponents 0, 1/2, 1 and 2, else through log2 and exp2
FPowf(a, y) ==
  IF ~IsNaN(y) /\ IsZero(y) THEN One
  ELSE IF a = One THEN One
  ELSE IF IsNaN(a) \/ IsNaN(y) THEN NaN
  ELSE IF y = One THEN a
  ELSE IF y = FromInt(2) THEN FMul(a, a)
  ELSE IF y = Half THEN (IF IsInf(a) THEN Inf(1) ELSE FSqrt(a))
  ELSE IF IsZero(a) THEN (IF y.m > 0 THEN Zero ELSE Inf(1))
  ELSE IF a.m < 0 THEN NaN
  ELSE FExp2(FMul(y, FLog2(a)))

(***************************************************************************)
(* Vectors are functions on 0..n-1, as Vec and Array1 are indexed.         *)
(***************************************************************************)
VLen(v) == Cardinality(DOMAIN v)

\* the vector or matrix f with its elements computed once
Array(f) == f @@ <<>>

Empty == [p \in {} |-> Zero]

Push(v, x) == [p \in 0..VLen(v) |-> IF p < VLen(v) THEN v[p] ELSE x]

RECURSIVE SumTo(_, _)
\* v[0] + ... + v[n-1], added in this order from 0.0 (Iterator::sum, Array1::sum)
SumTo(v, n) == IF n = 0 THEN Zero ELSE FAdd(SumTo(v, n - 1), v[n - 1])

FSum(v) == SumTo(v, VLen(v))

SetMax(S) == CHOOSE x \in S : \A y \in S : y <= x

(***************************************************************************)
(* The k-NN graph handed to the embedding (KGraph, external): N points of  *)
(* a metric space, for every node its k nearest other nodes by ascending   *)
(* distance, and the index set giving the DataId of every node.  The       *)
(* points lie on the line 0..MaxPos; equal points give distance 0.         *)
(***************************************************************************)
OutEdge(n, w) == [node |-> n, weight |-> w]

Distance(points, i, j) == Abs(points[i] - points[j])

\* j comes before l in the neighbour list of i
Nearer(points, i, j, l) ==
  \/ Distance(points, i, j) < Distance(points, i, l)
  \/ Distance(points, i, j) = Distance(points, i, l) /\ j < l

NearestAt(points, i, p) ==
  LET others == (DOMAIN points) \ {i}
  IN  CHOOSE j \in others : Cardinality({l \in others : Nearer(points, i, l, j)}) = p

KGraph(points, k, ids) ==
  [nb_nodes  |-> VLen(points),
   max_nbng  |-> k,
   neighbours |-> [i \in DOMAIN points |->
                     [p \in 0..k-1 |->
                        LET j == NearestAt(points, i, p)
                        IN  OutEdge(j, FromInt(Distance(points, i, j)))]],
   indexset  |-> ids]

\* point sets of n nodes on 0..maxpos, listed from left to right, the first at 0
PointSets(n, maxpos) ==
  {p \in [0..n-1 -> 0..maxpos] : p[0] = 0 /\ \A i \in 0..n-2 : p[i] <= p[i+1]}

IdentityIds(n) == [i \in 0..n-1 |-> i]

(***************************************************************************)
(* Kernel: DiffusionMaps::compute_dmap_nodeparams.                         *)
(***************************************************************************)
\* embedder::PROBA_MIN, the floor of an edge weight
PROBA_MIN == FDiv(One, FromInt(100000))

\* the mean of the k+1 distances summed, in place of their sum over k
get_dist_around_node_mean(kgraph, out_edges) ==
  LET rho_x == out_edges[0].weight
      nb == VLen(out_edges)
      rho_y_s == [p \in 0..nb |->
                    IF p < nb THEN kgraph.neighbours[out_edges[p].node][0].weight ELSE rho_x]
  IN  FDiv(FSum(rho_y_s), FromInt(nb + 1))

get_dist_around_node(kgraph, out_edges) ==
  LET rho_x   == out_edges[0].weight
      nb      == VLen(out_edges)
      rho_y_s == [p \in 0..nb |->
                    IF p < nb THEN kgraph.neighbours[out_edges[p].node][0].weight
                    ELSE rho_x]
  IN  FDiv(FSum(rho_y_s), FromInt(nb))

epsil == FSqrt(FromInt(5))

\* the Gaussian value without the floor PROBA_MIN
remap_weight_unfloored(w, shift, scale) ==
  FExp(FNeg(FPowf(FDiv(FSub(w, shift), FMul(epsil, scale)), FromInt(2))))

remap_weight(w, shift, scale) ==
  LET arg == FPowf(FDiv(FSub(w, shift), FMul(epsil, scale)), FromInt(2))
  IN  FMax(FExp(FNeg(arg)), PROBA_MIN)

\* the test of lines 378-390: no neighbour at a positive distance, or the last
\* such neighbour no farther than the first neighbour
\* only the case where every distance is 0
all_equal_zero_only(neighbours) ==
  {p \in DOMAIN neighbours : FGt(neighbours[p].weight, Zero)} = {}

all_equal(neighbours) ==
  LET positive == {p \in DOMAIN neighbours : FGt(neighbours[p].weight, Zero)}
  IN  IF positive = {} THEN TRUE
      ELSE FLe(neighbours[SetMax(positive)].weight, neighbours[0].weight)

\* the edges of node i with the self edge pushed after the neighbours
node_edges_self_last(i, neighbours, local_scales) ==
  LET nb == VLen(neighbours)
      weight(n) == IF all_equal(neighbours) THEN FDiv(One, FromInt(nb + 1))
                   ELSE remap_weight(n.weight, Zero,
                                     FSqrt(FMul(local_scales[n.node], local_scales[i])))
  IN  [p \in 0..nb |->
         IF p = nb
         THEN OutEdge(i, IF all_equal(neighbours) THEN FDiv(One, FromInt(nb + 1)) ELSE One)
         ELSE OutEdge(neighbours[p].node, weight(neighbours[p]))]

\* the edges built for node i in the loop of lines 375-426
node_edges(i, neighbours, local_scales) ==
  LET nb_edges == 1 + VLen(neighbours)
  IN  IF all_equal(neighbours)
      THEN LET proba == FDiv(One, FromInt(nb_edges))
           IN  [p \in 0..nb_edges-1 |->
                  IF p = 0 THEN OutEdge(i, proba)
                  ELSE OutEdge(neighbours[p-1].node, proba)]
      ELSE LET from_scale == local_scales[i]
           IN  [p \in 0..nb_edges-1 |->
                  IF p = 0 THEN OutEdge(i, One)
                  ELSE LET n == neighbours[p-1]
                           to_scale == local_scales[n.node]
                           local_scale == FSqrt(FMul(to_scale, from_scale))
                       IN  OutEdge(n.node, remap_weight(n.weight, Zero, local_scale))]

\* the value pushed on q_density for a node of the second branch: the weights
\* of its neighbours added in order, then the weight of the self edge
density_sum(edges) ==
  FAdd(FSum([p \in 0..VLen(edges)-2 |-> edges[p+1].weight]), edges[0].weight)

RECURSIVE density_upto(_, _, _)
\* the local q_density after the loop has handled nodes 0..n-1: only the second
\* branch pushes a value (line 421)
density_upto(kgraph, params, n) ==
  IF n = 0 THEN Empty
  ELSE LET prev == density_upto(kgraph, params, n - 1)
       IN  IF all_equal(kgraph.neighbours[n - 1]) THEN prev
           ELSE Push(prev, density_sum(params[n - 1].edges))

compute_dmap_nodeparams(kgraph) ==
  LET local_scales == Array([i \in DOMAIN kgraph.neighbours |->
                               get_dist_around_node(kgraph, kgraph.neighbours[i])])
  IN  [params   |-> [i \in DOMAIN kgraph.neighbours |->
                       [scale |-> local_scales[i],
                        edges |-> node_edges(i, kgraph.neighbours[i], local_scales)]],
       max_nbng |-> kgraph.max_nbng]

\* the local q_density when density_quantiles is called (line 428)
local_q_density(kgraph, nodeparams) ==
  density_upto(kgraph, nodeparams.params, kgraph.nb_nodes)

(***************************************************************************)
(* Laplacian: DiffusionMaps::compute_laplacian.  A matrix is a vector of   *)
(* rows; a CSR matrix is given by the same entries, 0.0 where none is      *)
(* stored.                                                                 *)
(***************************************************************************)
\* graphlaplace.rs: FULL_MAT_REPR and FULL_SVD_SIZE_LIMIT are 5000.  The model
\* scales both down with its graphs, so that graphs of up to 3 nodes take the
\* full matrix branch and larger ones the csr branch.
FULL_MAT_REPR == 3

FULL_SVD_SIZE_LIMIT == 3

MatRepr(csr, mat) == [csr |-> csr, mat |-> mat]

\* GraphLaplacian::new; svd_res is the field embed_from_laplacian fills (line 628)
GraphLaplacian(sym_laplacian, degrees) ==
  [sym_laplacian |-> sym_laplacian, degrees |-> degrees, svd_res |-> [some |-> FALSE]]

\* lines 201-205
local_scale(node_params) ==
  LET scales == [i \in DOMAIN node_params.params |-> node_params.params[i].scale]
      mean_scale == FSum(scales)
  IN  Array([i \in DOMAIN scales |-> FDiv(scales[i], mean_scale)])

\* lines 209-219: the last edge of i to j sets T[i,j]
transition_proba(node_params) ==
  LET nodes == DOMAIN node_params.params
  IN  Array([i \in nodes |-> Array([j \in nodes |->
        LET edges == node_params.params[i].edges
            hits  == {p \in DOMAIN edges : edges[p].node = j}
        IN  IF hits = {} THEN Zero ELSE edges[SetMax(hits)].weight])])

\* line 222
dense_symgraph(node_params) ==
  LET t == transition_proba(node_params)
  IN  Array([i \in DOMAIN t |->
               Array([j \in DOMAIN t |-> FMul(FAdd(t[i][j], t[j][i]), Half)])])

\* lines 230-238: the reweighted kernel and its row sums
dense_reweighted(node_params, alfa) ==
  LET symgraph == dense_symgraph(node_params)
      nodes == DOMAIN symgraph
      q == Array([i \in nodes |-> FSum(symgraph[i])])
  IN  Array([i \in nodes |-> Array([j \in nodes |->
        FDiv(symgraph[i][j], FPowf(FMul(q[i], q[j]), alfa))])])

\* degrees as line 231 allocates it, its entries never assigned
dense_degrees_unset(node_params, alfa) ==
  Array([i \in DOMAIN node_params.params |-> Zero])

\* degrees taken from the rows before their reweighting: the vector q
dense_degrees_of_symgraph(node_params, alfa) ==
  LET symgraph == dense_symgraph(node_params)
  IN  Array([i \in DOMAIN symgraph |-> FSum(symgraph[i])])

\* lines 231-238: degrees[i] is the sum of row i once the row is reweighted
dense_degrees(node_params, alfa) ==
  LET kernel == dense_reweighted(node_params, alfa)
  IN  Array([i \in DOMAIN kernel |-> FSum(kernel[i])])

\* lines 207-259
dense_laplacian(node_params, alfa) ==
  LET kernel == dense_reweighted(node_params, alfa)
      nodes == DOMAIN kernel
      degrees == dense_degrees(node_params, alfa)
      normalized == [i \in nodes |-> [j \in nodes |->
                       FDiv(kernel[i][j], FSqrt(FMul(degrees[i], degrees[j])))]]
      ls == local_scale(node_params)
      do_scale == TRUE
      scaled == IF do_scale
                THEN [i \in nodes |-> [j \in nodes |->
                        FDiv(normalized[i][j], FMul(ls[i], ls[j]))]]
                ELSE normalized
  IN  GraphLaplacian(MatRepr(FALSE, scaled), degrees)

\* lines 264-271: the keys of edge_list, and the weight each holds
edge_keys(node_params) ==
  {<<i, node_params.params[i].edges[p].node>> :
     i \in DOMAIN node_params.params, p \in 0..node_params.max_nbng}

edge_list(node_params) ==
  Array([key \in edge_keys(node_params) |->
     LET edges == node_params.params[key[1]].edges
         hits  == {p \in DOMAIN edges : edges[p].node = key[2]}
     IN  edges[SetMax(hits)].weight])

\* the loop of lines 278-295 with the first push of each key only
sparse_triplets_once(node_params, order) ==
  LET el == edge_list(node_params)
  IN  Array([idx \in 0..VLen(order)-1 |->
        LET key == order[idx]
            val == el[key]
            sym_val == IF <<key[2], key[1]>> \in DOMAIN el
                       THEN FMax(val, el[<<key[2], key[1]>>]) ELSE val
        IN  [row |-> key[1], col |-> key[2], value |-> sym_val]])

\* lines 278-295: rows, cols and values after the loop over edge_list in the
\* order the hash map iterates; place 2p and 2p+1 hold the two pushes of key p
sparse_triplets(node_params, order) ==
  LET el == edge_list(node_params)
  IN  Array([idx \in 0..2*VLen(order)-1 |->
        LET key == order[idx \div 2]
            val == el[key]
            sym_val == IF <<key[2], key[1]>> \in DOMAIN el
                       THEN FMax(val, el[<<key[2], key[1]>>]) ELSE val
        IN  IF idx % 2 = 0 THEN [row |-> key[1], col |-> key[2], value |-> sym_val]
            ELSE [row |-> key[2], col |-> key[1], value |-> sym_val]])

RECURSIVE row_sums_upto(_, _, _)
\* diagonal[n] after the first `upto` triplets were added to their rows
row_sums_upto(triplets, n, upto) ==
  IF upto = 0 THEN Zero
  ELSE LET prev == row_sums_upto(triplets, n, upto - 1)
       IN  IF triplets[upto - 1].row = n THEN FAdd(prev, triplets[upto - 1].value)
           ELSE prev

row_sums(triplets, nodes) ==
  Array([n \in nodes |-> row_sums_upto(triplets, n, VLen(triplets))])

\* lines 298-302
sparse_reweighted(node_params, alfa, order) ==
  LET triplets == sparse_triplets(node_params, order)
      diagonal == row_sums(triplets, DOMAIN node_params.params)
  IN  Array([idx \in DOMAIN triplets |->
        [triplets[idx] EXCEPT !.value =
           FDiv(@, FPowf(FMul(diagonal[triplets[idx].row], diagonal[triplets[idx].col]),
                         alfa))]])

RECURSIVE entry_upto(_, _, _, _)
\* TriMatBase::to_csr adds the values of the triplets of one place
entry_upto(triplets, i, j, upto) ==
  IF upto = 0 THEN Zero
  ELSE LET prev == entry_upto(triplets, i, j, upto - 1)
           t == triplets[upto - 1]
       IN  IF t.row = i /\ t.col = j THEN FAdd(prev, t.value) ELSE prev

to_csr(triplets, nodes) ==
  [i \in nodes |-> [j \in nodes |-> entry_upto(triplets, i, j, VLen(triplets))]]

\* lines 261-325
sparse_laplacian(node_params, alfa, order) ==
  LET nodes == DOMAIN node_params.params
      weighted == sparse_reweighted(node_params, alfa, order)
      diagonal == row_sums(weighted, nodes)
      normalized == Array([idx \in DOMAIN weighted |->
                      [weighted[idx] EXCEPT !.value =
                         FDiv(@, FSqrt(FMul(diagonal[weighted[idx].row],
                                            diagonal[weighted[idx].col])))]])
  IN  GraphLaplacian(MatRepr(TRUE, to_csr(normalized, nodes)), diagonal)

uses_full_matrix(node_params) == VLen(node_params.params) <= FULL_MAT_REPR

compute_laplacian(node_params, alfa, order) ==
  IF uses_full_matrix(node_params) THEN dense_laplacian(node_params, alfa)
  ELSE sparse_laplacian(node_params, alfa, order)

\* the orders in which the hash map edge_list may be iterated: by (i,j)
\* ascending, by (i,j) descending, by (j,i) ascending
KeyAt(keys, code(_), p) ==
  CHOOSE key \in keys : Cardinality({other \in keys : code(other) < code(key)}) = p

HashOrders(node_params) ==
  LET keys == edge_keys(node_params)
      n == VLen(node_params.params)
      len == Cardinality(keys)
      asc(key) == key[1] * n + key[2]
      desc(key) == -(key[1] * n + key[2])
      bycol(key) == key[2] * n + key[1]
  IN  { [p \in 0..len-1 |-> KeyAt(keys, asc, p)],
        [p \in 0..len-1 |-> KeyAt(keys, desc, p)],
        [p \in 0..len-1 |-> KeyAt(keys, bycol, p)] }

(***************************************************************************)
(* Results of calls: a value, an Err, or a panic that aborts the call.     *)
(***************************************************************************)
None == [some |-> FALSE]

Some(x) == [some |-> TRUE, v |-> x]

Ok(x) == [tag |-> "Ok", v |-> x]

Err(msg) == [tag |-> "Err", msg |-> msg]

Panic(msg) == [tag |-> "panic", msg |-> msg]

Min(a, b) == IF a <= b THEN a ELSE b

(***************************************************************************)
(* DiffusionParams.                                                        *)
(***************************************************************************)
\* DiffusionParams::new
DiffusionParams(asked_dim, t_opt) == [asked_dim |-> asked_dim, alfa |-> Zero, t |-> t_opt]

\* DiffusionParams::set_alfa without its range test
set_alfa_unchecked(p, alfa) == [p EXCEPT !.alfa = alfa]

\* DiffusionParams::set_alfa
set_alfa(p, alfa) ==
  IF ~(FLe(Zero, alfa) /\ FLe(alfa, One)) THEN p
  ELSE [p EXCEPT !.alfa = alfa]

get_alfa(p) == p.alfa

(***************************************************************************)
(* Singular value decomposition.  LAPACK is outside the program: a call    *)
(* either fails or hands back min(m, n) singular values and a matrix U     *)
(* with as many columns; `lapack` is the outcome of the call.              *)
(***************************************************************************)
NbRows(mat) == VLen(mat)

NbCols(mat) == IF VLen(mat) = 0 THEN 0 ELSE VLen(mat[0])

\* ArrayBase::as_slice_mut: the arrays compute_laplacian builds and the
\* product direct_svd forms are contiguous and in standard order
as_slice_mut(b) == Some(b)

\* graphlaplace.rs svd_f32: Err when the matrix gives no slice (lines
\* 218-222); the unwrap of line 234 panics when svddc failed
svd_f32(b, lapack) ==
  IF ~as_slice_mut(b).some THEN Err("not contiguous or not in standard order")
  ELSE IF lapack.failed THEN Panic("svddc failed")
  ELSE Ok([s |-> lapack.s, u |-> lapack.u])

do_full_svd(lap, lapack) == svd_f32(lap.sym_laplacian.mat, lapack)

\* svdapprox.rs RangeApprox::approximate: a RANK request is served for a
\* dense matrix only
approximate(mat, mode) ==
  IF mode.kind = "EPSIL" THEN Some("adaptative_range_finder_matrep")
  ELSE IF ~mat.csr THEN Some("subspace_iteration")
  ELSE None

\* svdapprox.rs SvdApprox::direct_svd: the svd of the product of the range
\* basis and the matrix, with the same slice test and the same unwrap as
\* svd_f32 (lines 447-460)
direct_svd(mat, mode, lapack) ==
  IF ~approximate(mat, mode).some THEN Err("range approximation failed")
  ELSE svd_f32(mat.mat, lapack)

\* svdapprox.rs RangeRank and RangeApproxMode::RANK
RangeRank(rank, nbiter) == [rank |-> rank, nbiter |-> nbiter]

RANK(range_rank) == [kind |-> "RANK", rank |-> range_rank.rank, nbiter |-> range_rank.nbiter]

\* graphlaplace.rs line 79: the mode do_approx_svd asks for
svdmode(asked_dim) == RANK(RangeRank(20, 5))

\* GraphLaplacian::do_approx_svd
do_approx_svd(lap, asked_dim, lapack) ==
  IF asked_dim < 2 THEN Panic("assertion failed: asked_dim >= 2")
  ELSE LET svd_res == direct_svd(lap.sym_laplacian, svdmode(asked_dim), lapack)
       IN  IF svd_res.tag = "Err" THEN Panic("svd approximation failed") ELSE svd_res

\* line 90: the test of do_svd
takes_full_svd(lap) ==
  ~lap.sym_laplacian.csr /\ VLen(lap.degrees) <= FULL_SVD_SIZE_LIMIT

\* what do_svd(asked_dim) called: the route, the mode handed to the range
\* finder, and what the svd routine it called came back with
do_svd_call(lap, asked_dim, lapack) ==
  IF takes_full_svd(lap)
  THEN [route |-> "full", asked_dim |-> asked_dim, mode |-> None,
        routine |-> Some(svd_f32(lap.sym_laplacian.mat, lapack))]
  ELSE [route |-> "approx", asked_dim |-> asked_dim,
        mode |-> IF asked_dim < 2 THEN None ELSE Some(svdmode(asked_dim)),
        routine |-> IF asked_dim < 2 THEN None
                    ELSE Some(direct_svd(lap.sym_laplacian, svdmode(asked_dim), lapack))]

\* GraphLaplacian::do_svd
do_svd(lap, asked_dim, lapack) ==
  IF takes_full_svd(lap)
  THEN do_full_svd(lap, lapack)
  ELSE do_approx_svd(lap, asked_dim, lapack)

(***************************************************************************)
(* Embedding: DiffusionMaps::embed_from_laplacian and embedding_reindexed. *)
(***************************************************************************)
\* tools::clip::clip
clip(f, max) ==
  IF FGt(f, max) THEN max ELSE IF FLt(f, FNeg(max)) THEN FNeg(max) ELSE f

\* all columns of U but the first, whatever was asked for
real_dim_all(asked_dim, u) == NbCols(u) - 1

\* line 596
real_dim(asked_dim, u) == Min(asked_dim, NbCols(u))

\* lines 603-606
diffusion_time(t_opt, normalized_lambdas) ==
  IF t_opt.some THEN t_opt.v
  ELSE FMin(FromInt(5),
            FDiv(FLn(FDiv(FromInt(9), FromInt(10))),
                 FLn(FDiv(normalized_lambdas[2], normalized_lambdas[1]))))

\* lines 611-623 without the clip of line 617
embedded_rows_unclipped(lap, u, normalized_lambdas, time, dim) ==
  LET sum_diag == FSum(lap.degrees)
  IN  Array([i \in 0..NbRows(u)-1 |->
        LET weight_i == FSqrt(FDiv(lap.degrees[i], sum_diag))
        IN  Array([j \in 0..dim-1 |->
              FDiv(FMul(FPowf(normalized_lambdas[j + 1], time), u[i][j + 1]), weight_i)])])

\* lines 611-623, when every index is within bounds
embedded_rows(lap, u, normalized_lambdas, time, dim) ==
  LET sum_diag == FSum(lap.degrees)
  IN  Array([i \in 0..NbRows(u)-1 |->
        LET weight_i == FSqrt(FDiv(lap.degrees[i], sum_diag))
        IN  Array([j \in 0..dim-1 |->
              clip(FDiv(FMul(FPowf(normalized_lambdas[j + 1], time), u[i][j + 1]), weight_i),
                   FromInt(5))])])

\* embedding_reindexed, lines 633-654: row i goes to row index[i]
embedding_reindexed(embedded, idx) ==
  LET nbrow == NbRows(embedded)
      dim == NbCols(embedded)
  IN  IF dim > 0 /\ \E i \in 0..nbrow-1 : idx[i] >= nbrow
      THEN Panic("reindexed: index out of bounds")
      ELSE Ok([r \in 0..nbrow-1 |-> [j \in 0..dim-1 |->
                 LET from == {i \in 0..nbrow-1 : idx[i] = r}
                 IN  IF from = {} THEN Zero ELSE embedded[SetMax(from)][j]]])

\* line 628 without its assignment
store_svd_res_skipped(lap, svd_res) == lap

\* line 628: laplacian.svd_res = Some(svd_res)
store_svd_res(lap, svd_res) == [lap EXCEPT !.svd_res = svd_res]

\* DiffusionMaps::get_svd_res, lines 107-112, on the field laplacian
get_svd_res(dmaps_lap) ==
  IF dmaps_lap.some THEN dmaps_lap.v.svd_res ELSE None

\* embed_from_laplacian, lines 541-631.  The answer carries what the call
\* computed up to the place where it ended.
embed_from_laplacian(lap, asked_dim, t_opt, idx, lapack, log_info) ==
  LET svd == do_svd(lap, asked_dim + 25, lapack)
      ended(res, svd_res, embedded) == [res |-> res, svd_res |-> svd_res, embedded |-> embedded]
  IN  IF svd.tag # "Ok" THEN ended(Panic(svd.msg), None, None)
      ELSE
      LET lambdas == svd.v.s
          u == svd.v.u
          len == VLen(lambdas)
          dim == real_dim(asked_dim, u)
          normalized_lambdas == Array([p \in DOMAIN lambdas |-> FDiv(lambdas[p], lambdas[0])])
          time == diffusion_time(t_opt, normalized_lambdas)
          embedded == embedded_rows(lap, u, normalized_lambdas, time, dim)
          reindexed == embedding_reindexed(embedded, idx)
      IN  IF len > 2 /\ FGt(lambdas[1], lambdas[0])
          THEN ended(Panic("svd spectrum not decreasing"), Some(svd.v), None)
          ELSE IF log_info /\ len < 5
          THEN ended(Panic("lambdas: index out of bounds"), Some(svd.v), None)
          ELSE IF ~t_opt.some /\ len < 3
          THEN ended(Panic("normalized_lambdas: index out of bounds"), Some(svd.v), None)
          ELSE IF NbRows(u) > 0 /\ dim > 0 /\ dim >= Min(len, NbCols(u))
          THEN ended(Panic("embedded: index out of bounds"), Some(svd.v), None)
          ELSE ended(reindexed, Some(svd.v), Some(embedded))

(***************************************************************************)
(* State.  params, index and dmaps_laplacian are the fields of             *)
(* DiffusionMaps; kgraph, nodeparams, q_density and laplacian are the      *)
(* values the steps of laplacian_from_kgraph hand to one another; svd_call *)
(* is the do_svd call embed_from_laplacian made; svd_res, embedded and     *)
(* result are what embed_from_laplacian computed; alfa_arg is              *)
(* the argument of the set_alfa call just made; pc is the position in the  *)
(* work chain, panic the message of the panic that ended it and calls the  *)
(* number of embedding calls that returned.  finder, hubness and insertion *)
(* hold the locals of a range finder run, of Hubness::new and of           *)
(* array2_insert_hnsw, each None while that function is not running.       *)
(***************************************************************************)
VARIABLES points, kgraph, params, alfa_arg, index, nodeparams, q_density, laplacian,
          dmaps_laplacian, svd_call, svd_res, embedded, result, panic, calls, pc,
          finder, hubness, insertion

\* the state of the embedding driver
driver_vars == <<points, kgraph, params, alfa_arg, index, nodeparams, q_density, laplacian,
                 dmaps_laplacian, svd_call, svd_res, embedded, result, panic, calls, pc>>

\* the state of a range finder run, of Hubness::new and of array2_insert_hnsw
tools_vars == <<finder, hubness, insertion>>

vars == <<driver_vars, tools_vars>>

\* largest embedding dimension asked for
MaxDim == 3
\* the points behind the graphs handed to the embedding lie on 0..MaxDriverPos
MaxDriverPos == 1
\* embedding calls made on one DiffusionMaps
MaxCalls == 2
\* a further call is followed up for graphs of up to MaxRepeatNodes nodes
MaxRepeatNodes == 2

\* the values of alfa the setter lets through that the model uses
AlfaValues == {Zero, Half, One}

\* the arguments set_alfa is called with
AlfaInputs == AlfaValues \cup {FNeg(Half), FromInt(2), Inf(1), NaN}

\* the diffusion times a caller gives
TOpts == {None, Some(One)}

\* the k-NN graphs of n points on the line 0..maxpos
Graphs(n, maxpos) == { [points |-> pts, k |-> k] : pts \in PointSets(n, maxpos), k \in 1..n-1 }

KernelGraphs == UNION { Graphs(n, MaxPos) : n \in 2..MaxNodes }

DriverGraphs == UNION { Graphs(n, MaxDriverPos) : n \in 2..MaxNodes }

RepeatGraphs == UNION { Graphs(n, MaxDriverPos) : n \in 2..MaxRepeatNodes }

\* the DataIds of the rows: 0..n-1 in order, 0..n-1 reversed, 1..n
IndexSets(n) ==
  { IdentityIds(n), [i \in 0..n-1 |-> n - 1 - i], [i \in 0..n-1 |-> i + 1] }

\* what a LAPACK call on an n x n matrix may hand back
LapackOutcomes(n) ==
  LET sigmas == { [p \in 0..n-1 |-> IF p = 0 THEN One ELSE Half],
                  [p \in 0..n-1 |-> One],
                  [p \in 0..n-1 |-> IF p = 0 THEN Half ELSE One],
                  [p \in 0..n-1 |-> IF p = 1 THEN Half ELSE One] }
      us == { [i \in 0..n-1 |-> [j \in 0..n-1 |->
                 Mk(IF e > 0 /\ (i + j) % 2 = 1 THEN -1 ELSE 1, 4 + 2 * i + j, e)]] :
              e \in {-3, 3} }
  IN  { [failed |-> FALSE, s |-> s, u |-> u] : s \in sigmas, u \in us }
      \cup { [failed |-> TRUE, s |-> Empty, u |-> Empty] }

NotStarted ==
  /\ nodeparams = None
  /\ q_density = None
  /\ laplacian = None
  /\ dmaps_laplacian = None
  /\ svd_call = None
  /\ svd_res = None
  /\ embedded = None
  /\ result = None
  /\ panic = None
  /\ calls = 0
  /\ finder = None
  /\ hubness = None
  /\ insertion = None

\* DiffusionMaps::new(DiffusionParams::new(asked_dim, t_opt))
Init ==
  /\ \E d \in 1..MaxDim, t \in TOpts : params = DiffusionParams(d, t)
  /\ points = None
  /\ kgraph = None
  /\ index = None
  /\ alfa_arg = None
  /\ NotStarted
  /\ pc = "params"

\* the state laplacian_from_kgraph is in once it has stored the index set
\* (line 176), for every graph and every alfa
InitKernel ==
  /\ \E g \in KernelGraphs :
       /\ points = g.points
       /\ kgraph = KGraph(g.points, g.k, IdentityIds(VLen(g.points)))
  /\ \E a \in AlfaValues : params = set_alfa(DiffusionParams(2, None), a)
  /\ alfa_arg = None
  /\ index = Some(kgraph.indexset)
  /\ NotStarted
  /\ pc = "kgraph"

\* params.set_alfa(a)
SetAlfa ==
  /\ pc = "params"
  /\ \E a \in AlfaInputs :
       /\ params' = set_alfa(params, a)
       /\ alfa_arg' = Some(a)
  /\ UNCHANGED <<points, kgraph, index, nodeparams, q_density, laplacian, dmaps_laplacian,
                 svd_call, svd_res, embedded, result, panic, calls, pc>>
  /\ UNCHANGED tools_vars

\* embed_from_kgraph is entered with a graph; laplacian_from_kgraph stores
\* its index set (line 176).  embed_from_hnsw enters the same chain with the
\* graph kgraph_from_hnsw_all built (lines 154-156, 528).
EmbedFromKgraph ==
  /\ pc = "params"
  /\ \E g \in DriverGraphs : \E ids \in IndexSets(VLen(g.points)) :
       /\ points' = g.points
       /\ kgraph' = KGraph(g.points, g.k, ids)
       /\ index' = Some(ids)
  /\ alfa_arg' = None
  /\ pc' = "kgraph"
  /\ UNCHANGED <<params, nodeparams, q_density, laplacian, dmaps_laplacian,
                 svd_call, svd_res, embedded, result, panic, calls>>
  /\ UNCHANGED tools_vars

\* a further embed_from_kgraph call on the same DiffusionMaps, once a call
\* has returned, with the same asked_dim and t: params and the stored
\* laplacian are as the last call left them, the values of the new call are
\* not computed yet
EmbedAgain ==
  /\ pc = "done"
  /\ calls < MaxCalls
  /\ kgraph.nb_nodes <= MaxRepeatNodes
  /\ \E g \in RepeatGraphs : \E ids \in IndexSets(VLen(g.points)) :
       /\ points' = g.points
       /\ kgraph' = KGraph(g.points, g.k, ids)
       /\ index' = Some(ids)
  /\ alfa_arg' = None
  /\ nodeparams' = None
  /\ q_density' = None
  /\ laplacian' = None
  /\ svd_call' = None
  /\ svd_res' = None
  /\ embedded' = None
  /\ result' = None
  /\ pc' = "kgraph"
  /\ UNCHANGED <<params, dmaps_laplacian, panic, calls>>
  /\ UNCHANGED tools_vars

\* line 178
ComputeNodeParams ==
  /\ pc = "kgraph"
  /\ nodeparams' = compute_dmap_nodeparams(kgraph)
  /\ q_density' = local_q_density(kgraph, nodeparams')
  /\ pc' = "nodeparams"
  /\ UNCHANGED <<points, kgraph, params, alfa_arg, index, laplacian, dmaps_laplacian,
                 svd_call, svd_res, embedded, result, panic, calls>>
  /\ UNCHANGED tools_vars

\* line 179
ComputeLaplacian ==
  /\ pc = "nodeparams"
  /\ \E order \in HashOrders(nodeparams) :
       laplacian' = compute_laplacian(nodeparams, get_alfa(params), order)
  /\ pc' = "laplacian"
  /\ UNCHANGED <<points, kgraph, params, alfa_arg, index, nodeparams, q_density,
                 dmaps_laplacian, svd_call, svd_res, embedded, result, panic, calls>>
  /\ UNCHANGED tools_vars

\* embed_from_laplacian and the rest of embed_from_kgraph (lines 495-501):
\* the unwrap, then the laplacian, with its svd_res, is stored
EmbedFromLaplacian ==
  /\ pc = "laplacian"
  /\ \E lapack \in LapackOutcomes(VLen(laplacian.degrees)), log_info \in BOOLEAN :
       LET out == embed_from_laplacian(laplacian, params.asked_dim, params.t, index.v,
                                       lapack, log_info)
       IN  /\ svd_call' = Some(do_svd_call(laplacian, params.asked_dim + 25, lapack))
           /\ svd_res' = out.svd_res
           /\ embedded' = out.embedded
           /\ IF out.res.tag = "Ok"
              THEN /\ result' = Some(out.res.v)
                   /\ laplacian' = store_svd_res(laplacian, out.svd_res)
                   /\ dmaps_laplacian' = Some(laplacian')
                   /\ panic' = None
                   /\ calls' = calls + 1
                   /\ pc' = "done"
              ELSE /\ result' = None
                   /\ panic' = Some(out.res.msg)
                   /\ pc' = "panic"
                   /\ UNCHANGED <<laplacian, dmaps_laplacian, calls>>
  /\ UNCHANGED <<points, kgraph, params, alfa_arg, index, nodeparams, q_density>>
  /\ UNCHANGED tools_vars

NextKernel == ComputeNodeParams \/ ComputeLaplacian

SpecKernel == InitKernel /\ [][NextKernel]_vars

Next ==
  \/ SetAlfa
  \/ EmbedFromKgraph
  \/ EmbedAgain
  \/ ComputeNodeParams
  \/ ComputeLaplacian
  \/ EmbedFromLaplacian

Spec == Init /\ [][Next]_vars

(***************************************************************************)
(* Properties.                                                             *)
(***************************************************************************)
Nodes == 0..kgraph.nb_nodes-1

NodeParamsComputed == pc \notin {"params", "kgraph"}

\* the distance from node i to its neighbour at place p, as the points give it
NeighbourDistance(i, p) == Distance(points, i, kgraph.neighbours[i][p].node)

\* rho(x): the distance from x to its nearest neighbour
Rho(x) == NeighbourDistance(x, 0)

\* the farthest neighbour of i is no farther than its nearest
Degenerate(i) == NeighbourDistance(i, kgraph.max_nbng - 1) <= Rho(i)

Edges(i) == nodeparams.params[i].edges

InRange(a) == FLe(Zero, a) /\ FLe(a, One)

\* C1: when embed_from_kgraph returns, the matrix has as many rows as the
\* graph has nodes and between 1 and asked_dim columns.
C1_ReturnedShape ==
  pc = "done" =>
    /\ NbRows(result.v) = kgraph.nb_nodes
    /\ 1 <= NbCols(result.v)
    /\ NbCols(result.v) <= params.asked_dim

\* a call that returned 3 rows of 2 columns
C1_Witness ==
  /\ pc = "done"
  /\ kgraph.nb_nodes = 3
  /\ params.asked_dim = 2
  /\ NbCols(result.v) = 2

\* C2: embedding_reindexed completes for every index set the graph carries;
\* it never ends on an index out of bounds.
C2_ReindexCompletes ==
  ~(panic.some /\ panic.v = "reindexed: index out of bounds")

\* C3: when U has fewer columns than asked_dim, the loop building the
\* embedding reads U[i, j+1] and lambda[j+1] within bounds and the call
\* does not abort there.
C3_ShortfallRecovers ==
  ~(/\ panic.some
    /\ panic.v = "embedded: index out of bounds"
    /\ NbCols(svd_res.v.u) < params.asked_dim)

\* C4: a call set_alfa(a) sets alfa to a exactly when a is in [0,1], else
\* leaves alfa as it was; asked_dim and t keep their values; get_alfa() is
\* in [0,1] in every state.
C4_SetAlfa ==
  /\ [](InRange(get_alfa(params)))
  /\ [][(pc = "params" /\ pc' = "params") =>
          /\ alfa_arg'.some
          /\ get_alfa(params') = IF InRange(alfa_arg'.v) THEN alfa_arg'.v ELSE get_alfa(params)
          /\ params'.asked_dim = params.asked_dim
          /\ params'.t = params.t]_vars

\* set_alfa(NaN) was just refused and alfa kept the value 1/2 set before
C4_Witness ==
  /\ pc = "params"
  /\ alfa_arg.some
  /\ IsNaN(alfa_arg.v)
  /\ get_alfa(params) = Half

\* C5: the node whose farthest neighbour is no farther than its nearest has
\* the weight 1/(k+1) on its self edge and on each neighbour edge, and no
\* other node has.
C5_DegeneratePolicy ==
  NodeParamsComputed =>
    \A i \in Nodes :
      Degenerate(i) <=>
        \A p \in DOMAIN Edges(i) :
          Edges(i)[p].weight = FDiv(One, FromInt(kgraph.max_nbng + 1))

\* a graph with both kinds of node: one with equal non-zero distances to its
\* two neighbours, one with a farther second neighbour
C5_Witness ==
  /\ NodeParamsComputed
  /\ kgraph.max_nbng = 2
  /\ \E i \in Nodes : Degenerate(i) /\ Rho(i) > 0
  /\ \E i \in Nodes : ~Degenerate(i)

\* C6: the scale of every NodeParam is strictly positive.
C6_ScalePositive ==
  NodeParamsComputed => \A i \in Nodes : FGt(nodeparams.params[i].scale, Zero)

\* C7: the NodeParam of node i has k+1 edges, the first is the self edge, no
\* other edge leads to i, and the edges after it lead to the neighbours of i
\* in the order of the graph.
C7_EdgeLayout ==
  NodeParamsComputed =>
    \A i \in Nodes :
      /\ DOMAIN Edges(i) = 0..VLen(kgraph.neighbours[i])
      /\ Edges(i)[0].node = i
      /\ \A p \in 1..VLen(kgraph.neighbours[i]) :
           /\ Edges(i)[p].node # i
           /\ Edges(i)[p].node = kgraph.neighbours[i][p - 1].node

\* node parameters of a graph of 4 nodes with 3 neighbours each, of both kinds
C7_Witness ==
  /\ NodeParamsComputed
  /\ kgraph.nb_nodes = 4
  /\ kgraph.max_nbng = 3
  /\ \E i \in Nodes : Degenerate(i)
  /\ \E i \in Nodes : ~Degenerate(i)

\* C8: for a node of the second branch the self edge weighs 1 and every
\* neighbour edge weighs between PROBA_MIN and 1; every edge of every node
\* has a weight above 0.
C8_WeightRange ==
  NodeParamsComputed =>
    \A i \in Nodes :
      /\ ~Degenerate(i) =>
           /\ Edges(i)[0].weight = One
           /\ \A p \in 1..kgraph.max_nbng :
                FLe(PROBA_MIN, Edges(i)[p].weight) /\ FLe(Edges(i)[p].weight, One)
      /\ \A p \in DOMAIN Edges(i) : FGt(Edges(i)[p].weight, Zero)

\* a node of the second branch with one edge at the floor and one above it
C8_Witness ==
  /\ NodeParamsComputed
  /\ \E i \in Nodes :
       /\ ~Degenerate(i)
       /\ \E p \in 1..kgraph.max_nbng : Edges(i)[p].weight = PROBA_MIN
       /\ \E p \in 1..kgraph.max_nbng :
            FLt(PROBA_MIN, Edges(i)[p].weight) /\ FLt(Edges(i)[p].weight, One)

RECURSIVE SumRho(_, _)
\* rho of the first n neighbours of i, added up
SumRho(i, n) ==
  IF n = 0 THEN 0 ELSE SumRho(i, n - 1) + Rho(kgraph.neighbours[i][n - 1].node)

C10_Symmetric ==
  pc = "laplacian" =>
    \A i, j \in Nodes :
      FEq(laplacian.sym_laplacian.mat[i][j], laplacian.sym_laplacian.mat[j][i])

\* the Laplacian is computed, on the csr branch or on the full matrix branch
LaplacianComputed == pc = "laplacian"

SparsePath == LaplacianComputed /\ laplacian.sym_laplacian.csr

DensePath == LaplacianComputed /\ ~laplacian.sym_laplacian.csr

\* the matrix that the triplets of lines 278-295 assemble to, before the
\* reweighting of lines 298-302
SymmetrisedTriplets(order) == to_csr(sparse_triplets(nodeparams, order), Nodes)

\* max(v, T[j,i]) when the reverse edge exists and v otherwise
MaxRule(key) ==
  LET el == edge_list(nodeparams)
  IN  IF <<key[2], key[1]>> \in DOMAIN el THEN FMax(el[key], el[<<key[2], key[1]>>])
      ELSE el[key]

\* C11: on the csr branch the symmetrised kernel holds max(v, T[j,i]) at
\* (i,j) and at (j,i) for every edge (i,j) of weight v that has a reverse
\* edge, v when it has none, and T[i,i] on the diagonal.
C11_MaxRule ==
  SparsePath =>
    \A order \in HashOrders(nodeparams) : \A key \in edge_keys(nodeparams) :
      /\ SymmetrisedTriplets(order)[key[1]][key[2]] = MaxRule(key)
      /\ SymmetrisedTriplets(order)[key[2]][key[1]] = MaxRule(key)

\* the reweighted kernel K of the Laplacian in `laplacian`: the matrix of
\* lines 232-238, or the one the triplets of lines 298-302 assemble to
ReweightedKernel(order) ==
  IF uses_full_matrix(nodeparams) THEN dense_reweighted(nodeparams, params.alfa)
  ELSE to_csr(sparse_reweighted(nodeparams, params.alfa, order), Nodes)

\* K[i,j] / sqrt(D[i] * D[j])
Normalised(kernel, degrees) ==
  [i \in Nodes |-> [j \in Nodes |->
     FDiv(kernel[i][j], FSqrt(FMul(degrees[i], degrees[j])))]]

\* C12: the matrix compute_laplacian returns is K[i,j] / sqrt(D[i] * D[j]),
\* K the reweighted kernel and D the returned degrees, on both branches.
C12_NormalisedKernel ==
  LaplacianComputed =>
    \E order \in HashOrders(nodeparams) :
      laplacian.sym_laplacian.mat = Normalised(ReweightedKernel(order), laplacian.degrees)

\* the sum over j of K[i,j]
RowSum(kernel, i) == FSum(kernel[i])

\* two sums of the same positive terms taken in different orders: equal up
\* to the rounding of their additions, the last 5 bits of the mantissa
Near(a, b) ==
  LET slack == FMul(FMax(a, b), Mk(1, 1, 5 - MantBits))
  IN  a = b \/ (FLe(FSub(a, b), slack) /\ FLe(FSub(b, a), slack))

\* C13: degrees[i] is the sum of row i of the reweighted kernel, taken before
\* the normalisation, on both branches.  The csr branch adds the triplets of
\* a row in the order of the hash map, hence the comparison up to rounding.
C13_DegreesAreRowSums ==
  LaplacianComputed =>
    \E order \in HashOrders(nodeparams) : \A i \in Nodes :
      Near(laplacian.degrees[i], RowSum(ReweightedKernel(order), i))

\* a full matrix and a csr matrix whose reweighting changed the row sums and
\* whose normalisation changed them again
C13_Witness ==
  /\ LaplacianComputed
  /\ params.alfa = Half
  /\ \E i \in Nodes :
       /\ FLt(laplacian.degrees[i],
              IF uses_full_matrix(nodeparams) THEN FSum(dense_symgraph(nodeparams)[i])
              ELSE FSum(SymmetrisedTriplets(CHOOSE o \in HashOrders(nodeparams) : TRUE)[i]))
       /\ ~FEq(laplacian.degrees[i], FSum(laplacian.sym_laplacian.mat[i]))

\* C14: every degree compute_laplacian returns is above 0, hence so is every
\* divisor sqrt(D[i] * D[j]) of the normalisation.
C14_DegreesPositive ==
  LaplacianComputed =>
    \A i, j \in Nodes :
      /\ FGt(laplacian.degrees[i], Zero)
      /\ IsFinite(laplacian.degrees[i])
      /\ FGt(FSqrt(FMul(laplacian.degrees[i], laplacian.degrees[j])), Zero)

\* a Laplacian of a graph with a node of scale 0 and an edge at the floor
\* PROBA_MIN, reweighted with alfa = 1
C14_Witness ==
  /\ LaplacianComputed
  /\ params.alfa = One
  /\ \E i \in Nodes : nodeparams.params[i].scale = Zero
  /\ \E i \in Nodes : \E p \in DOMAIN Edges(i) : Edges(i)[p].weight = PROBA_MIN
  /\ \A i \in Nodes : FGt(laplacian.degrees[i], Zero)

\* embed_from_laplacian has called do_svd
SvdCalled == svd_call.some

\* do_svd took do_approx_svd, which reached the range finder
RangeFinderAsked == SvdCalled /\ svd_call.v.route = "approx" /\ svd_call.v.mode.some

\* C15: when do_svd(k) takes the approximate route, the range finder is asked
\* for RANK mode with rank k + 20 and 5 iterations, k being asked_dim + 25.
C15_RankFollowsAskedDim ==
  RangeFinderAsked =>
    /\ svd_call.v.asked_dim = params.asked_dim + 25
    /\ svd_call.v.mode.v = RANK(RangeRank(svd_call.v.asked_dim + 20, 5))

\* C16: for a Laplacian in csr form do_svd gets a range basis and returns Ok
\* with singular values; the call neither fails nor aborts there.
C16_CsrSvdCompletes ==
  (SvdCalled /\ laplacian.sym_laplacian.csr) =>
    /\ svd_call.v.routine.some
    /\ svd_call.v.routine.v.tag = "Ok"
    /\ svd_res.some

\* the singular values hold a place where the next value is the larger one
Increasing(sigma) ==
  \E i \in DOMAIN sigma : i + 1 \in DOMAIN sigma /\ FGt(sigma[i + 1], sigma[i])

\* C17: whenever the singular values the svd returned are not non-increasing,
\* whatever their number, the embedding aborts on the spectrum check.
C17_SpectrumChecked ==
  (svd_res.some /\ Increasing(svd_res.v.s)) => pc = "panic"

\* C18: a svd routine that meets a failure, of the slice or of LAPACK, returns
\* Err; it neither aborts nor returns Ok.
C18_SvdFailureIsErr ==
  (SvdCalled /\ svd_call.v.routine.some /\ ~svd_res.some) =>
    svd_call.v.routine.v.tag = "Err"

\* C19: get_svd_res() is None as long as no embedding call has returned, and
\* once a call has returned it is Some of the svd result of that call, the
\* last one to return.
C19_SvdResLifecycle ==
  /\ (calls = 0 /\ pc # "panic") => get_svd_res(dmaps_laplacian) = None
  /\ pc = "done" =>
       /\ svd_res.some
       /\ get_svd_res(dmaps_laplacian) = Some(svd_res.v)
       /\ dmaps_laplacian.v.sym_laplacian = laplacian.sym_laplacian

\* the second call on one DiffusionMaps has returned, with singular values
\* all equal to 1
C19_Witness ==
  /\ pc = "done"
  /\ calls = 2
  /\ get_svd_res(dmaps_laplacian).some
  /\ \A p \in DOMAIN get_svd_res(dmaps_laplacian).v.s : get_svd_res(dmaps_laplacian).v.s[p] = One

\* x lies in the closed interval [-5, 5]
WithinClip(x) == FLe(FNeg(FromInt(5)), x) /\ FLe(x, FromInt(5))

OtherRun(order) == compute_laplacian(nodeparams, get_alfa(params), order)

\* C21: two runs on identical inputs compute the same Laplacian, hence the
\* same embedding, whatever the order in which the hash map edge_list of
\* either run iterates.
C21_Deterministic ==
  LaplacianComputed =>
    \A order \in HashOrders(nodeparams) :
      /\ OtherRun(order).degrees = laplacian.degrees
      /\ OtherRun(order).sym_laplacian = laplacian.sym_laplacian

\* the field q_density of DiffusionMaps: None from DiffusionMaps::new on, no
\* statement assigns it
self_q_density == None

\* what density_quantiles works on (lines 434-442): nothing when the field is
\* None
density_quantiles_input == IF self_q_density.some THEN self_q_density.v ELSE Empty

\* C29: after the loop over the N nodes q_density holds N values, the one of
\* node i being the sum of the weights of the edges of i, self edge
\* included, and density_quantiles works on these values.
C29_DensityOfEveryNode ==
  NodeParamsComputed =>
    /\ VLen(q_density) = kgraph.nb_nodes
    /\ \A i \in Nodes : q_density[i] = density_sum(Edges(i))
    /\ density_quantiles_input = q_density

\* every node has a self edge, and two edges in opposite directions carry
\* the same weight
ReciprocalEqual ==
  /\ \A i \in Nodes : <<i, i>> \in edge_keys(nodeparams)
  /\ \A key \in edge_keys(nodeparams) :
       <<key[2], key[1]>> \in edge_keys(nodeparams) =>
         edge_list(nodeparams)[key] = edge_list(nodeparams)[<<key[2], key[1]>>]

\* C30: for node parameters with self edges and equal weights on opposite
\* edges, the kernel the sparse branch assembles is 2 times the matrix
\* (T + T^T)/2 of the dense branch, entry by entry.
C30_SparseIsTwiceDense ==
  (NodeParamsComputed /\ ReciprocalEqual) =>
    \A order \in HashOrders(nodeparams) : \A i, j \in Nodes :
      SymmetrisedTriplets(order)[i][j] = FMul(FromInt(2), dense_symgraph(nodeparams)[i][j])

\* such node parameters with a pair of opposite edges between two nodes of
\* the second branch, an edge without its opposite, and two nodes without
\* any edge between them
C30_Witness ==
  /\ NodeParamsComputed
  /\ ReciprocalEqual
  /\ \E key \in edge_keys(nodeparams) :
       /\ key[1] # key[2]
       /\ <<key[2], key[1]>> \in edge_keys(nodeparams)
       /\ ~Degenerate(key[1])
       /\ ~Degenerate(key[2])
  /\ \E key \in edge_keys(nodeparams) : <<key[2], key[1]>> \notin edge_keys(nodeparams)
  /\ \E i, j \in Nodes : <<i, j>> \notin edge_keys(nodeparams) /\ <<j, i>> \notin edge_keys(nodeparams)

(***************************************************************************)
(* array2_insert_hnsw, diffmaps.rs lines 744-777.  The Hnsw structure is   *)
(* outside the program: parallel_insert_slice inserts every item of the    *)
(* slice it is given, in an order of its own.  The data is an Array2 in    *)
(* standard order, so that every row gives a slice (lines 766, 772).       *)
(***************************************************************************)
\* line 758: blocksize is 10000 in the program.  The model scales it down so
\* that the arrays of up to MaxRows rows cover no block, one block, several
\* blocks, and a last block with and without a remainder.
blocksize == 3

\* largest number of rows of the array handed to array2_insert_hnsw
MaxRows == 7

\* the driver is not in use
DriverIdle ==
  /\ points = None
  /\ kgraph = None
  /\ params = DiffusionParams(1, None)
  /\ alfa_arg = None
  /\ index = None
  /\ nodeparams = None
  /\ q_density = None
  /\ laplacian = None
  /\ dmaps_laplacian = None
  /\ svd_call = None
  /\ svd_res = None
  /\ embedded = None
  /\ result = None
  /\ panic = None
  /\ calls = 0
  /\ pc = "idle"

\* line 761
nb_block(nb_row) == nb_row \div blocksize

\* the end of block i taken one row too far
block_end_next(i) == i * blocksize + blocksize

\* line 764
block_end(i) == i * blocksize + blocksize - 1

\* lines 765-767 and 771-773: row n is paired with the id n
to_insert(start, end) == { [row |-> n, id |-> n] : n \in start..end }

\* hnsw.get_nb_point()
get_nb_point(ins) == ins.nb_point_before + Len(ins.inserted)

\* the call is entered with an array of nb_row rows and a Hnsw that is empty
\* or holds one point
InitInsert ==
  /\ DriverIdle
  /\ finder = None
  /\ hubness = None
  /\ \E nb_row \in 0..MaxRows, before \in 0..1 :
       insertion = Some([nb_row |-> nb_row, nb_point_before |-> before, inserted |-> <<>>,
                         slice |-> {}, i |-> 0, ret |-> None, pc |-> "entry"])

\* lines 750-756
InsertEntry ==
  /\ insertion.v.pc = "entry"
  /\ insertion' = Some(IF get_nb_point(insertion.v) > 0
                       THEN [insertion.v EXCEPT !.ret = Some(Err(1)), !.pc = "done"]
                       ELSE [insertion.v EXCEPT !.pc = "blocks"])
  /\ UNCHANGED <<driver_vars, finder, hubness>>

\* lines 762-768: block i is handed to parallel_insert_slice
InsertBlock ==
  /\ insertion.v.pc = "blocks"
  /\ insertion.v.i < nb_block(insertion.v.nb_row)
  /\ insertion' = Some([insertion.v EXCEPT
                          !.slice = to_insert(insertion.v.i * blocksize, block_end(insertion.v.i)),
                          !.pc = "block"])
  /\ UNCHANGED <<driver_vars, finder, hubness>>

\* parallel_insert_slice inserts one more item of the slice
InsertItem ==
  /\ insertion.v.pc \in {"block", "remainder"}
  /\ \E item \in insertion.v.slice :
       insertion' = Some([insertion.v EXCEPT !.inserted = Append(@, item),
                                             !.slice = @ \ {item}])
  /\ UNCHANGED <<driver_vars, finder, hubness>>

\* parallel_insert_slice returns and the loop goes on to the next block
InsertBlockDone ==
  /\ insertion.v.pc = "block"
  /\ insertion.v.slice = {}
  /\ insertion' = Some([insertion.v EXCEPT !.i = @ + 1, !.pc = "blocks"])
  /\ UNCHANGED <<driver_vars, finder, hubness>>

\* lines 770-774: the rows after the last full block
InsertRemainder ==
  /\ insertion.v.pc = "blocks"
  /\ insertion.v.i >= nb_block(insertion.v.nb_row)
  /\ insertion' = Some([insertion.v EXCEPT
                          !.slice = to_insert(nb_block(insertion.v.nb_row) * blocksize,
                                              insertion.v.nb_row - 1),
                          !.pc = "remainder"])
  /\ UNCHANGED <<driver_vars, finder, hubness>>

\* line 776
InsertReturn ==
  /\ insertion.v.pc = "remainder"
  /\ insertion.v.slice = {}
  /\ insertion' = Some([insertion.v EXCEPT !.ret = Some(Ok(get_nb_point(insertion.v))),
                                           !.pc = "done"])
  /\ UNCHANGED <<driver_vars, finder, hubness>>

NextInsert ==
  \/ InsertEntry
  \/ InsertBlock
  \/ InsertItem
  \/ InsertBlockDone
  \/ InsertRemainder
  \/ InsertReturn

SpecInsert == InitInsert /\ [][NextInsert]_vars

\* the number of times row n went into the Hnsw with the id n
TimesInserted(n) ==
  Cardinality({p \in DOMAIN insertion.v.inserted :
                 insertion.v.inserted[p] = [row |-> n, id |-> n]})

\* C28: on an empty Hnsw array2_insert_hnsw inserts each row n of 0..nb_row-1
\* once, with the id n, and nothing else, and returns Ok(nb_row); on a Hnsw
\* that holds points it returns Err(1) and inserts nothing.
C28_EveryRowOnce ==
  (insertion.some /\ insertion.v.pc = "done") =>
    IF insertion.v.nb_point_before > 0
    THEN insertion.v.ret = Some(Err(1)) /\ insertion.v.inserted = <<>>
    ELSE /\ \A n \in 0..insertion.v.nb_row-1 : TimesInserted(n) = 1
         /\ Len(insertion.v.inserted) = insertion.v.nb_row
         /\ insertion.v.ret = Some(Ok(insertion.v.nb_row))

\* a call that returned after two full blocks and a remainder of one row,
\* the rows of the first block inserted in another order than their indices
C28_Witness ==
  /\ insertion.some
  /\ insertion.v.pc = "done"
  /\ insertion.v.nb_row = 2 * blocksize + 1
  /\ insertion.v.i = 2
  /\ insertion.v.inserted[1].row = 2
  /\ insertion.v.ret = Some(Ok(2 * blocksize + 1))

(***************************************************************************)
(* Hubness::new, fromhnsw/hubness.rs lines 36-61.  The parallel iterator   *)
(* of line 53 runs scan_node once for every node; the calls run in any     *)
(* interleaving, each fetch_add is one atomic step, and for_each returns   *)
(* when every call has returned.                                           *)
(***************************************************************************)
\* largest number of nodes of a graph handed to Hubness::new
MaxHubNodes == 3

\* the points of these graphs lie on 0..MaxHubPos
MaxHubPos == 2

HubGraphs == UNION { Graphs(n, MaxHubPos) : n \in 2..MaxHubNodes }

\* line 45
get_out_edges_by_idx(kg, node) == kg.neighbours[node]

\* one call of scan_node has returned
some_scan_returned(h) ==
  \E node \in DOMAIN h.scanned : h.scanned[node] = VLen(get_out_edges_by_idx(kgraph, node))

\* line 53: for_each returns when every call of scan_node has returned
for_each_returned(h) ==
  \A node \in DOMAIN h.scanned : h.scanned[node] = VLen(get_out_edges_by_idx(kgraph, node))

\* lines 38-42: the graph is given and the counters are at 0
InitHubness ==
  /\ \E g \in HubGraphs :
       /\ points = g.points
       /\ kgraph = KGraph(g.points, g.k, IdentityIds(VLen(g.points)))
  /\ params = DiffusionParams(1, None)
  /\ alfa_arg = None
  /\ index = None
  /\ nodeparams = None
  /\ q_density = None
  /\ laplacian = None
  /\ dmaps_laplacian = None
  /\ svd_call = None
  /\ svd_res = None
  /\ embedded = None
  /\ result = None
  /\ panic = None
  /\ calls = 0
  /\ pc = "idle"
  /\ finder = None
  /\ insertion = None
  /\ hubness = Some([counts_atom |-> [n \in Nodes |-> 0],
                     scanned |-> [n \in Nodes |-> 0],
                     counts |-> None])

\* lines 46-51: the call scan_node(node) takes its next edge and adds 1 to the
\* counter of the node the edge points to.  A counter is an AtomicU32; the
\* graphs of the model have fewer than 2^32 edges and no counter wraps.
FetchAdd(node) ==
  /\ hubness.v.counts = None
  /\ hubness.v.scanned[node] < VLen(get_out_edges_by_idx(kgraph, node))
  /\ LET edge == get_out_edges_by_idx(kgraph, node)[hubness.v.scanned[node]]
         n == edge.node
     IN  hubness' = Some([hubness.v EXCEPT !.counts_atom[n] = @ + 1,
                                           !.scanned[node] = @ + 1])
  /\ UNCHANGED <<driver_vars, finder, insertion>>

ScanNode == \E node \in Nodes : FetchAdd(node)

\* lines 53-60: for_each has returned and the counters are loaded
LoadCounts ==
  /\ hubness.v.counts = None
  /\ for_each_returned(hubness.v)
  /\ hubness' = Some([hubness.v EXCEPT !.counts = Some(hubness.v.counts_atom)])
  /\ UNCHANGED <<driver_vars, finder, insertion>>

NextHubness == ScanNode \/ LoadCounts

SpecHubness == InitHubness /\ [][NextHubness]_vars

\* the number of out-edges of the graph that point to n
InDegree(n) ==
  Cardinality({ e \in Nodes \X (0..kgraph.max_nbng-1) :
                  get_out_edges_by_idx(kgraph, e[1])[e[2]].node = n })

RECURSIVE CountSum(_, _)
CountSum(counts, n) == IF n = 0 THEN 0 ELSE CountSum(counts, n - 1) + counts[n - 1]

\* C27: whatever the interleaving of the calls of scan_node, the counts of the
\* Hubness are loaded when every call has returned, counts[n] is the number
\* of out-edges pointing to n, and the counts add up to the number of edges.
C27_CountsAreInDegrees ==
  (hubness.some /\ hubness.v.counts.some) =>
    /\ for_each_returned(hubness.v)
    /\ \A n \in Nodes : hubness.v.counts.v[n] = InDegree(n)
    /\ CountSum(hubness.v.counts.v, kgraph.nb_nodes) = kgraph.nb_nodes * kgraph.max_nbng

\* a Hubness built on 3 nodes with 1 neighbour each, one node cited by two
\* edges and another by none
C27_Witness ==
  /\ hubness.some
  /\ hubness.v.counts.some
  /\ kgraph.nb_nodes = 3
  /\ \E n, m \in Nodes : hubness.v.counts.v[n] = 2 /\ hubness.v.counts.v[m] = 0

(***************************************************************************)
(* Range approximation, tools/svdapprox.rs: the adaptive range finder      *)
(* (adaptative_range_finder_matrep, lines 299-379) and the subspace        *)
(* iteration (subspace_iteration, lines 249-280).  The Gaussian samples    *)
(* are those of Xoshiro256PlusPlus seeded with 4664397: a generator is its *)
(* seed and the number of samples it has given, and the sample at a        *)
(* position of the stream of a seed is always the same.                    *)
(***************************************************************************)
\* largest number of rows and of columns of the matrix given to a range finder
MaxFinderDim == 2

\* largest batch size r (RangePrecision.step)
MaxBatch == 2

\* largest rank and largest nbiter of a RangeRank
MaxRank == 3

\* svdapprox.rs RangePrecision and RangeApproxMode::EPSIL
RangePrecision(eps, step) == [epsil |-> eps, step |-> step]

EPSIL(precision) == [kind |-> "EPSIL", epsil |-> precision.epsil, step |-> precision.step]

\* lines 64 and 85: the seed of every generator
SEED == 4664397

\* Xoshiro256PlusPlus::seed_from_u64
seed_from_u64(seed) == [seed |-> seed, pos |-> 0]

\* Float::epsilon(): the distance from 1.0 to the next float
EPSILON == Mk(1, 1, 1 - MantBits)

\* f64::FRAC_1_PI
FRAC_1_PI == Mk(1, 162, -9)

ZeroVect(dim) == [i \in 0..dim-1 |-> Zero]

VAdd(a, b) == [i \in DOMAIN a |-> FAdd(a[i], b[i])]

VSub(a, b) == [i \in DOMAIN a |-> FSub(a[i], b[i])]

VScale(a, c) == [i \in DOMAIN a |-> FMul(a[i], c)]

VDiv(a, c) == [i \in DOMAIN a |-> FDiv(a[i], c)]

\* ndarray dot of two vectors
Dot(a, b) == FSum([i \in DOMAIN a |-> FMul(a[i], b[i])])

\* MatRepr::mat_dot_vector
mat_dot_vector(mat, v) == [i \in DOMAIN mat |-> Dot(mat[i], v)]

\* lines 489-493
norm_l2(v) == FSqrt(FSum([i \in DOMAIN v |-> FMul(v[i], v[i])]))

RECURSIVE proj_qy(_, _, _)
\* lines 504-507: the sum of the projections of y on q[0] .. q[nb_q - 1]
proj_qy(q, y, nb_q) ==
  IF nb_q = 0 THEN ZeroVect(VLen(y))
  ELSE VAdd(proj_qy(q, y, nb_q - 1), VScale(q[nb_q - 1], Dot(q[nb_q - 1], y)))

\* lines 497-511
orthogonalize_with_q(q, y) ==
  IF VLen(q) = 0 THEN y ELSE VSub(y, proj_qy(q, y, VLen(q)))

\* line 306
stop_val(eps) == FDiv(eps, FMul(FromInt(10), FSqrt(FMul(FromInt(2), FRAC_1_PI))))

RECURSIVE MaxTo(_, _)
\* lines 323 and 362: the largest of norms[0] .. norms[n - 1]; max_by keeps the
\* last of equal elements
MaxTo(norms, n) ==
  IF n = 1 THEN norms[0]
  ELSE IF FLt(norms[n - 1], MaxTo(norms, n - 1)) THEN MaxTo(norms, n - 1) ELSE norms[n - 1]

norm_sup(norms) == MaxTo(norms, VLen(norms))

\* the samples a generator seeded with SEED gives, by position: three
\* streams stand for the one of Xoshiro256PlusPlus and StandardNormal
GaussValues ==
  <<One, FNeg(Half), FromInt(2), Mk(1, 3, -1), FromInt(-3), Mk(1, 5, -2), FNeg(One), Mk(1, 7, -3)>>

\* as many samples as a run of the model draws from one generator
StreamLen == (MaxFinderDim + 2) * (MaxFinderDim + MaxBatch + MaxRank)

GaussStreams ==
  { [pos \in 0..StreamLen-1 |-> GaussValues[1 + ((3 * c + 5 * pos) % Len(GaussValues))]] :
      c \in 0..2 }

\* the matrices given to a range finder: null, of rank 1, diagonal, and two
\* of full rank
FinderMats(m, n) ==
  { [i \in 0..m-1 |-> [j \in 0..n-1 |-> Zero]],
    [i \in 0..m-1 |-> [j \in 0..n-1 |-> One]],
    [i \in 0..m-1 |-> [j \in 0..n-1 |-> IF i = j THEN FromInt(2) ELSE Zero]],
    [i \in 0..m-1 |-> [j \in 0..n-1 |-> FromInt(1 + 2 * i + 3 * j + i * j)]],
    [i \in 0..m-1 |-> [j \in 0..n-1 |-> FromInt(7 + 11 * i * i - 5 * j)]] }

\* the precisions asked for
Epsils == {Zero, Mk(1, 1, -4), FromInt(64)}

Concat(a, b) ==
  [p \in 0..VLen(a)+VLen(b)-1 |-> IF p < VLen(a) THEN a[p] ELSE b[p - VLen(a)]]

Column(mat, j) == [i \in DOMAIN mat |-> mat[i][j]]

\* lines 63-71, RandomGaussianMatrix::new: a generator of its own, seeded with
\* SEED, fills the matrix in the order of its indices
RandomGaussianMatrix(stream, nrows, ncols) ==
  LET rng == seed_from_u64(SEED)
  IN  [mat  |-> [i \in 0..nrows-1 |-> [j \in 0..ncols-1 |-> stream[rng.pos + i * ncols + j]]],
       used |-> [p \in 0..nrows*ncols-1 |-> [seed |-> rng.seed, pos |-> rng.pos + p]]]

\* lines 84-87, RandomGaussianGenerator::new
RandomGaussianGenerator == [rng |-> seed_from_u64(SEED)]

\* lines 89-91: generate_matrix does not touch self.rng
generate_matrix(stream, nrows, ncols) == RandomGaussianMatrix(stream, nrows, ncols)

\* lines 95-101: the samples come from self.rng
generate_stdn_vect(stream, gen, dim) ==
  [vect |-> [i \in 0..dim-1 |-> stream[gen.rng.pos + i]],
   used |-> [i \in 0..dim-1 |-> [seed |-> gen.rng.seed, pos |-> gen.rng.pos + i]],
   gen  |-> [gen EXCEPT !.rng.pos = @ + dim]]

\* line 327
max_iter(mat) == IF NbRows(mat) < NbCols(mat) THEN NbRows(mat) ELSE NbCols(mat)

\* line 329
loop_guard(f) == FGt(f.norm_sup_y, stop_val(f.mode.epsil)) /\ f.nb_iter <= max_iter(f.mat)

\* the old y's are left as they are
keep_old_ys(w, q_j, j, nb_q) == w

\* lines 353-359: every y but the new one loses its component along q_j, the
\* column nb_q of Q;  w.orth[k] is the set of columns of Q that y_vec[k] has
\* been orthogonalised against
orthogonalize_old_ys(w, q_j, j, nb_q) ==
  [y_vec |-> [k \in DOMAIN w.y_vec |->
                IF k # j THEN VSub(w.y_vec[k], VScale(q_j, Dot(q_j, w.y_vec[k])))
                ELSE w.y_vec[k]],
   orth  |-> [k \in DOMAIN w.orth |-> IF k # j THEN w.orth[k] \cup {nb_q} ELSE w.orth[k]]]

\* lines 369-378
q_as_array2(m, q_mat) == [i \in 0..m-1 |-> [c \in 0..VLen(q_mat)-1 |-> q_mat[c][i]]]

\* RangeApprox::new(mat, mode) for a dense matrix, before approximate()
InitRange ==
  /\ DriverIdle
  /\ hubness = None
  /\ insertion = None
  /\ \E m \in 1..MaxFinderDim, n \in 1..MaxFinderDim, stream \in GaussStreams :
     \E mat \in FinderMats(m, n) :
     \E mode \in { EPSIL(RangePrecision(e, r)) : e \in Epsils, r \in 1..MaxBatch }
                 \cup { RANK(RangeRank(rank, nbiter)) : rank \in 1..MaxRank, nbiter \in 0..MaxRank } :
       finder = Some([mode |-> mode, mat |-> mat, stream |-> stream, pc |-> "start"])

\* lines 301-327
FinderStart ==
  /\ finder.v.pc = "start"
  /\ finder.v.mode.kind = "EPSIL"
  /\ LET mat == finder.v.mat
         r == finder.v.mode.step
         rng == RandomGaussianGenerator
         omega == generate_matrix(finder.v.stream, NbCols(mat), r)
         y_vec == Array([j \in 0..r-1 |-> mat_dot_vector(mat, Column(omega.mat, j))])
         norms_y == Array([i \in 0..r-1 |-> norm_l2(y_vec[i])])
     IN  finder' = Some([mode |-> finder.v.mode, mat |-> mat, stream |-> finder.v.stream,
                         pc |-> "loop", rng |-> rng, drawn |-> omega.used,
                         q_mat |-> <<>>, y_vec |-> y_vec, norms_y |-> norms_y,
                         norm_sup_y |-> norm_sup(norms_y), j |-> 0, nb_iter |-> 0,
                         orth |-> [k \in 0..r-1 |-> {}], src |-> [k \in 0..r-1 |-> k],
                         entered |-> 0, ret |-> None])
  /\ UNCHANGED <<driver_vars, hubness, insertion>>

\* lines 331-335: y_vec[j] after the numerical stabilisation
stabilized(f) ==
  IF VLen(f.q_mat) > 0 THEN orthogonalize_with_q(f.q_mat, f.y_vec[f.j]) ELSE f.y_vec[f.j]

\* lines 329-367: one pass of the loop that does not break
FinderIteration ==
  /\ finder.v.pc = "loop"
  /\ finder.v.mode.kind = "EPSIL"
  /\ loop_guard(finder.v)
  /\ LET f == finder.v
         j == f.j
         y_j == Array(stabilized(f))
         n_j == norm_l2(y_j)
         q_j == Array(VDiv(y_j, n_j))
         q_mat == Push(f.q_mat, q_j)
         omega_j_p1 == generate_stdn_vect(f.stream, f.rng, NbCols(f.mat))
         y_j_p1 == Array(orthogonalize_with_q(q_mat, mat_dot_vector(f.mat, omega_j_p1.vect)))
         w == orthogonalize_old_ys(
                [y_vec |-> [f.y_vec EXCEPT ![j] = y_j_p1],
                 orth  |-> [f.orth EXCEPT ![j] = 0..VLen(q_mat)-1]],
                q_j, j, VLen(f.q_mat))
         norms_y == [f.norms_y EXCEPT ![j] = norm_l2(w.y_vec[j])]
     IN  /\ ~FLt(n_j, EPSILON)
         /\ finder' = Some([f EXCEPT !.q_mat = q_mat,
                                     !.rng = omega_j_p1.gen,
                                     !.drawn = Concat(@, omega_j_p1.used),
                                     !.y_vec = Array(w.y_vec),
                                     !.orth = w.orth,
                                     !.src = [@ EXCEPT ![j] = f.mode.step + f.nb_iter],
                                     !.norms_y = norms_y,
                                     !.norm_sup_y = norm_sup(norms_y),
                                     !.j = (j + 1) % f.mode.step,
                                     !.nb_iter = @ + 1,
                                     !.entered = @ + 1])
  /\ UNCHANGED <<driver_vars, hubness, insertion>>

\* lines 329-339 and 369-378: the pass of the loop that breaks, and the return
FinderBreak ==
  /\ finder.v.pc = "loop"
  /\ finder.v.mode.kind = "EPSIL"
  /\ loop_guard(finder.v)
  /\ LET f == finder.v
         y_j == Array(stabilized(f))
     IN  /\ FLt(norm_l2(y_j), EPSILON)
         /\ finder' = Some([f EXCEPT !.y_vec[f.j] = y_j,
                                     !.entered = @ + 1,
                                     !.ret = Some(q_as_array2(NbRows(f.mat), f.q_mat)),
                                     !.pc = "done"])
  /\ UNCHANGED <<driver_vars, hubness, insertion>>

\* lines 329 and 369-378: the guard is false and Q is returned
FinderReturn ==
  /\ finder.v.pc = "loop"
  /\ finder.v.mode.kind = "EPSIL"
  /\ ~loop_guard(finder.v)
  /\ finder' = Some([finder.v EXCEPT
                       !.ret = Some(q_as_array2(NbRows(finder.v.mat), finder.v.q_mat)),
                       !.pc = "done"])
  /\ UNCHANGED <<driver_vars, hubness, insertion>>

\* what LAPACK's QR leaves in a matrix of the given shape: the matrix is known
\* by its shape and by the number of the factorisation it is the Q factor of
QFactor(rows, cols, nth) == [rows |-> rows, cols |-> cols, q_of_qr |-> nth]

\* a product, not yet factorised
Product(rows, cols) == [rows |-> rows, cols |-> cols, q_of_qr |-> 0]

\* line 255
rank_l(mat, rank) ==
  LET mn == IF NbRows(mat) < NbCols(mat) THEN NbRows(mat) ELSE NbCols(mat)
  IN  IF mn < rank THEN mn ELSE rank

\* lines 517-526, do_qr: the matrix is overwritten with the Q factor
do_qr(y, nth) == QFactor(y.rows, y.cols, nth)

\* lines 252-264: Omega, Y = A * Omega and the first factorisation
SubspaceStart ==
  /\ finder.v.pc = "start"
  /\ finder.v.mode.kind = "RANK"
  /\ LET mat == finder.v.mat
         l == rank_l(mat, finder.v.mode.rank)
         omega == generate_matrix(finder.v.stream, NbCols(mat), l)
     IN  finder' = Some([mode |-> finder.v.mode, mat |-> mat, stream |-> finder.v.stream,
                         pc |-> "loop", rng |-> RandomGaussianGenerator, drawn |-> omega.used,
                         y_m_l |-> do_qr(Product(NbRows(mat), l), 1),
                         y_n_l |-> Product(NbCols(mat), l),
                         qr_calls |-> 1, repetitions |-> 0, j |-> 1, ret |-> None])
  /\ UNCHANGED <<driver_vars, hubness, insertion>>

\* line 265: for _j in 1..nbiter
subspace_guard(f) == f.j < f.mode.nbiter

\* lines 265-275: one pass of the loop
SubspaceRepeat ==
  /\ finder.v.pc = "loop"
  /\ finder.v.mode.kind = "RANK"
  /\ subspace_guard(finder.v)
  /\ LET f == finder.v
         y_n_l == do_qr(Product(NbCols(f.mat), f.y_m_l.cols), f.qr_calls + 1)
         y_m_l == do_qr(Product(NbRows(f.mat), y_n_l.cols), f.qr_calls + 2)
     IN  finder' = Some([f EXCEPT !.y_n_l = y_n_l,
                                  !.y_m_l = y_m_l,
                                  !.qr_calls = @ + 2,
                                  !.repetitions = @ + 1,
                                  !.j = @ + 1])
  /\ UNCHANGED <<driver_vars, hubness, insertion>>

\* lines 265 and 277: the loop is over and y_m_l is returned
SubspaceReturn ==
  /\ finder.v.pc = "loop"
  /\ finder.v.mode.kind = "RANK"
  /\ ~subspace_guard(finder.v)
  /\ finder' = Some([finder.v EXCEPT !.ret = Some(finder.v.y_m_l), !.pc = "done"])
  /\ UNCHANGED <<driver_vars, hubness, insertion>>

NextRange ==
  \/ FinderStart
  \/ FinderIteration
  \/ FinderBreak
  \/ FinderReturn
  \/ SubspaceStart
  \/ SubspaceRepeat
  \/ SubspaceReturn

SpecRange == InitRange /\ [][NextRange]_vars

Adaptive == finder.some /\ finder.v.mode.kind = "EPSIL" /\ finder.v.pc # "start"

Subspace == finder.some /\ finder.v.mode.kind = "RANK" /\ finder.v.pc # "start"

AtLoopHead == Adaptive /\ finder.v.pc = "loop"

\* C22: when the adaptive range finder returns it has entered its loop at
\* most min(m, n) times and Q has at most min(m, n) columns.
C22_IterationCap ==
  (Adaptive /\ finder.v.pc = "done") =>
    /\ finder.v.entered <= max_iter(finder.v.mat)
    /\ NbRows(finder.v.ret.v) = NbRows(finder.v.mat)
    /\ NbCols(finder.v.ret.v) <= max_iter(finder.v.mat)

\* the norms of the window vectors as they are
current_norms(f) == [k \in DOMAIN f.y_vec |-> norm_l2(f.y_vec[k])]

\* C23: whenever the guard of the loop is evaluated, every norms_y[k] is the
\* norm of y_k as it is now and norm_sup_y is the largest of these norms.
C23_NormsAreCurrent ==
  AtLoopHead =>
    /\ \A k \in DOMAIN finder.v.y_vec : finder.v.norms_y[k] = norm_l2(finder.v.y_vec[k])
    /\ finder.v.norm_sup_y = norm_sup(current_norms(finder.v))

\* C24: at the head of every pass of the loop every window vector has been
\* orthogonalised against every column of Q, j is nb_iter mod r, Q has
\* nb_iter columns, and the window holds the last r vectors drawn, the one
\* drawn in pass t in slot t mod r.
C24_LoopInvariant ==
  AtLoopHead =>
    LET f == finder.v
        r == f.mode.step
    IN  /\ \A k \in 0..r-1 : f.orth[k] = 0..VLen(f.q_mat)-1
        /\ f.j = f.nb_iter % r
        /\ VLen(f.q_mat) = f.nb_iter
        /\ \A k \in 0..r-1 :
             /\ f.src[k] % r = k
             /\ f.nb_iter <= f.src[k]
             /\ f.src[k] < f.nb_iter + r

\* the head of the third pass with a window of two vectors: both slots have
\* been replaced and Q has two columns
C24_Witness ==
  /\ AtLoopHead
  /\ finder.v.mode.step = 2
  /\ finder.v.nb_iter = 2
  /\ finder.v.src = (0 :> 2 @@ 1 :> 3)
  /\ finder.v.orth = (0 :> {0, 1} @@ 1 :> {0, 1})

\* C25: no two of the Gaussian samples drawn in a run of the adaptive range
\* finder come from the same position of the stream of a seed.
C25_OneStream ==
  Adaptive =>
    \A a, b \in DOMAIN finder.v.drawn :
      a # b => finder.v.drawn[a] # finder.v.drawn[b]

\* C26: subspace_iteration(A, rank, q) has run q times through its loop and
\* 2q + 1 factorisations when it returns, and what it returns is the Q factor
\* of the last of them, with m rows and min(m, n, rank) columns.
C26_SubspacePasses ==
  (Subspace /\ finder.v.pc = "done") =>
    LET f == finder.v
    IN  /\ f.repetitions = f.mode.nbiter
        /\ f.qr_calls = 2 * f.mode.nbiter + 1
        /\ f.ret.v.q_of_qr = f.qr_calls
        /\ f.ret.v.rows = NbRows(f.mat)
        /\ f.ret.v.cols = rank_l(f.mat, f.mode.rank)
====
